---- MODULE Spec2Model ----
(***************************************************************************)
(* A model of file_indexer.py: the Histogram word-count accumulator (add,  *)
(* in-place merge, merge, top_words), the tokenizer, histogram_from_file   *)
(* and main (serial or through a multiprocessing pool).                    *)
(*                                                                         *)
(* A word is a sequence of ASCII codes, so that lower() and the string     *)
(* comparison of sorted() are computed rather than assumed.                *)
(***************************************************************************)
EXTENDS Integers, Sequences, FiniteSets, TLC

(***************************************************************************)
(* Bounds of the model.                                                    *)
(***************************************************************************)
\* largest total_words a Histogram of the heap reaches
MaxTotal == 3
\* largest count argument given to top_words
MaxCountArg == 4
\* largest per-word count of the Histograms top_words is applied to
MaxWordCount == 2
\* longest list of input files given to main
MaxFiles == 2
\* largest explicit number of workers given to main
MaxWorkers == 2
\* largest number of CPUs multiprocessing.cpu_count() reports
MaxCpu == 2
\* longest text given to the tokenizer
MaxTextLen == 4

(***************************************************************************)
(* Words: "Spam", "sPAM", "SPAM", "spam", "eggs", "word1" .. "word5".      *)
(***************************************************************************)
Spam == <<83, 112, 97, 109>>
sPAM == <<115, 80, 65, 77>>
SPAM == <<83, 80, 65, 77>>
spam == <<115, 112, 97, 109>>
eggs == <<101, 103, 103, 115>>
Eggs == <<69, 103, 103, 115>>
ham == <<104, 97, 109>>
word(d) == <<119, 111, 114, 100, 48 + d>>

\* the words handed to Histogram.add
AddWords == {Spam, sPAM, SPAM, eggs}
\* the keys of the Histograms top_words is applied to
TopKeys == {word(d) : d \in 1..5}

Max(a, b) == IF a >= b THEN a ELSE b
Min(a, b) == IF a <= b THEN a ELSE b

(***************************************************************************)
(* Python built-ins used by the code.                                      *)
(***************************************************************************)
\* str.lower() on ASCII text
lower(w) == [i \in 1..Len(w) |-> IF w[i] >= 65 /\ w[i] <= 90 THEN w[i] + 32 ELSE w[i]]

\* str.__lt__: lexicographic comparison by code point
RECURSIVE StrLess(_, _)
StrLess(a, b) ==
    IF b = <<>> THEN FALSE
    ELSE IF a = <<>> THEN TRUE
    ELSE IF a[1] # b[1] THEN a[1] < b[1]
    ELSE StrLess(Tail(a), Tail(b))

\* list[i] with Python's negative indices; "IndexError" outside the list
IndexOK(list, i) == i >= -Len(list) /\ i < Len(list)
PyIndex(list, i) == IF i >= 0 THEN list[i + 1] ELSE list[Len(list) + i + 1]

\* list[:n] with Python's negative bounds
PySlice(list, n) ==
    IF n >= 0 THEN SubSeq(list, 1, Min(n, Len(list)))
    ELSE SubSeq(list, 1, Max(Len(list) + n, 0))

(***************************************************************************)
(* The tokenizer.  A text is a sequence of ASCII codes; 10 is the newline. *)
(***************************************************************************)
\* the characters of a word under the pattern '\w+'
WordChar_with_underscore(c) ==
    (c >= 48 /\ c <= 57) \/ (c >= 65 /\ c <= 90) \/ (c >= 97 /\ c <= 122) \/ c = 95

\* WORD_RE = '[a-zA-Z0-9]+': the characters of a word
WordChar(c) == (c >= 48 /\ c <= 57) \/ (c >= 65 /\ c <= 90) \/ (c >= 97 /\ c <= 122)

\* WORD_RE.finditer(text): the successive leftmost longest matches from
\* position i on; cur is the match being extended
RECURSIVE finditer(_, _, _)
finditer(text, i, cur) ==
    IF i > Len(text) THEN (IF cur = <<>> THEN <<>> ELSE <<cur>>)
    ELSE IF WordChar(text[i]) THEN finditer(text, i + 1, Append(cur, text[i]))
    ELSE (IF cur = <<>> THEN <<>> ELSE <<cur>>) \o finditer(text, i + 1, <<>>)

_tokenize_text(text) == finditer(text, 1, <<>>)

\* 'for line in fh': the lines of a text, each with its newline
RECURSIVE Lines(_, _)
Lines(text, cur) ==
    IF text = <<>> THEN (IF cur = <<>> THEN <<>> ELSE <<cur>>)
    ELSE IF text[1] = 10 THEN <<Append(cur, 10)>> \o Lines(Tail(text), <<>>)
    ELSE Lines(Tail(text), Append(cur, text[1]))

RECURSIVE TokenizeLines(_)
TokenizeLines(lines) ==
    IF lines = <<>> THEN <<>>
    ELSE _tokenize_text(lines[1]) \o TokenizeLines(Tail(lines))

tokenize(fh) == TokenizeLines(Lines(fh, <<>>))

(***************************************************************************)
(* class Histogram                                                         *)
(***************************************************************************)
_zero == 0

\* Histogram.__init__
Histogram == [cls |-> "Histogram", words |-> <<>>, total |-> 0]

isinstance_Histogram(x) == x.cls = "Histogram"

\* an object slot holding nothing
NoObj == [cls |-> "None"]

\* a value that is not a Histogram (the 'other' of the tests)
NotAHistogram == [cls |-> "str"]

\* self._words[word] += count with a missing key created at _zero() and
\* not incremented
Incr_new_key_at_zero(words, w, count) ==
    IF w \in DOMAIN words THEN [words EXCEPT ![w] = @ + count]
    ELSE (w :> _zero) @@ words

\* self._words[word] += count; the defaultdict creates a missing key with
\* _zero()
Incr(words, w, count) ==
    IF w \in DOMAIN words THEN [words EXCEPT ![w] = @ + count]
    ELSE (w :> (_zero + count)) @@ words

\* IaddLoop with 'self._words[word] = count' for 'self._words[word] += count'
RECURSIVE IaddLoop_assign(_, _, _, _)
IaddLoop_assign(selfWords, otherWords, todo, same) ==
    IF todo = {} THEN selfWords
    ELSE LET w == CHOOSE k \in todo : TRUE
             count == IF same THEN selfWords[w] ELSE otherWords[w]
         IN  IaddLoop_assign([k \in DOMAIN selfWords \cup {w} |->
                                 IF k = w THEN count ELSE selfWords[k]],
                             otherWords, todo \ {w}, same)

\* the loop of __iadd__ over other._words; when other is self the counts are
\* read from the dictionary being updated
RECURSIVE IaddLoop(_, _, _, _)
IaddLoop(selfWords, otherWords, todo, same) ==
    IF todo = {} THEN selfWords
    ELSE LET w == CHOOSE k \in todo : TRUE
             count == IF same THEN selfWords[w] ELSE otherWords[w]
         IN  IaddLoop(Incr(selfWords, w, count), otherWords, todo \ {w}, same)

\* __iadd__ without 'self._total += other._total'
iadd_total_kept(self, other, same) ==
    IF ~isinstance_Histogram(other)
    THEN [ret |-> "NotImplemented", self |-> self, other |-> other]
    ELSE LET merged == [cls |-> "Histogram",
                        words |-> IaddLoop(self.words, other.words, DOMAIN other.words, same),
                        total |-> self.total]
         IN  [ret |-> "self", self |-> merged, other |-> IF same THEN merged ELSE other]

\* __iadd__ moving the counts out of other instead of copying them
iadd_draining_other(self, other, same) ==
    IF ~isinstance_Histogram(other)
    THEN [ret |-> "NotImplemented", self |-> self, other |-> other]
    ELSE LET merged == [cls |-> "Histogram",
                        words |-> IaddLoop(self.words, other.words, DOMAIN other.words, same),
                        total |-> self.total + other.total]
         IN  [ret |-> "self", self |-> merged, other |-> IF same THEN merged ELSE Histogram]

\* __iadd__ without the isinstance check: other._words does not exist
iadd_unchecked(self, other, same) ==
    IF ~isinstance_Histogram(other)
    THEN [ret |-> "AttributeError", self |-> self, other |-> other]
    ELSE LET merged == [cls |-> "Histogram",
                        words |-> IaddLoop(self.words, other.words, DOMAIN other.words, same),
                        total |-> self.total + other.total]
         IN  [ret |-> "self", self |-> merged, other |-> IF same THEN merged ELSE other]

\* Histogram.__iadd__(self, other), same telling that other is self: ret is
\* "NotImplemented" or "self"; self and other are the two objects after the call
__iadd__(self, other, same) ==
    IF ~isinstance_Histogram(other)
    THEN [ret |-> "NotImplemented", self |-> self, other |-> other]
    ELSE LET merged == [cls |-> "Histogram",
                        words |-> IaddLoop(self.words, other.words, DOMAIN other.words, same),
                        total |-> self.total + other.total]
         IN  [ret |-> "self", self |-> merged, other |-> IF same THEN merged ELSE other]

\* Histogram.__add__(self, other): ret is "NotImplemented" or "new"; new is the
\* Histogram created by self.__class__(), self and other the operands after the
\* call
__add__(self, other, same) ==
    IF ~isinstance_Histogram(other)
    THEN [ret |-> "NotImplemented", new |-> NoObj, self |-> self, other |-> other]
    ELSE LET first == __iadd__(Histogram, self, FALSE)
             second == __iadd__(first.self, IF same THEN first.other ELSE other, FALSE)
         IN  [ret |-> "new", new |-> second.self,
              self |-> IF same THEN second.other ELSE first.other,
              other |-> second.other]

\* add without 'self._total += 1'
add_total_kept(self, w) ==
    [cls |-> "Histogram",
     words |-> Incr(self.words, lower(w), 1),
     total |-> self.total]

\* add without 'word = word.lower()'
add_case_sensitive(self, w) ==
    [cls |-> "Histogram",
     words |-> Incr(self.words, w, 1),
     total |-> self.total + 1]

\* Histogram.add
add(self, w) ==
    [cls |-> "Histogram",
     words |-> Incr(self.words, lower(w), 1),
     total |-> self.total + 1]

total_words(self) == self.total

distinct_words(self) == Cardinality(DOMAIN self.words)

\* the sort key with the words compared the other way round
KeyLess_word_ascending(x, y) == x[2] < y[2] \/ (x[2] = y[2] /\ StrLess(y[1], x[1]))

\* the sort key of top_words, compared as Python compares tuples (count, word)
KeyLess(x, y) == x[2] < y[2] \/ (x[2] = y[2] /\ StrLess(x[1], y[1]))

\* sorted(items, key=...) without reverse=True
RECURSIVE Sorted_not_reversed(_)
Sorted_not_reversed(items) ==
    IF items = {} THEN <<>>
    ELSE LET m == CHOOSE x \in items : \A y \in items \ {x} : KeyLess(x, y)
         IN  <<m>> \o Sorted_not_reversed(items \ {m})

\* sorted(items, key=..., reverse=True)
RECURSIVE SortedReverse(_)
SortedReverse(items) ==
    IF items = {} THEN <<>>
    ELSE LET m == CHOOSE x \in items : \A y \in items \ {x} : KeyLess(y, x)
         IN  <<m>> \o SortedReverse(items \ {m})

\* top_words without the loop over the ties
TieLoop_no_ties(word_list, count, last_count) == count

\* the while loop of top_words
RECURSIVE TieLoop(_, _, _)
TieLoop(word_list, count, last_count) ==
    IF count < Len(word_list) /\ IndexOK(word_list, count)
       /\ PyIndex(word_list, count)[2] = last_count
    THEN TieLoop(word_list, count + 1, last_count)
    ELSE count

\* top_words with 'last_count = word_list[count][1]'
top_words_off_by_one(self, count) ==
    LET word_list == SortedReverse({<<k, self.words[k]>> : k \in DOMAIN self.words})
    IN  IF Len(word_list) < count THEN [raised |-> "none", value |-> word_list]
        ELSE IF ~IndexOK(word_list, count) THEN [raised |-> "IndexError", value |-> <<>>]
        ELSE LET last_count == PyIndex(word_list, count)[2]
             IN  [raised |-> "none",
                  value |-> PySlice(word_list, TieLoop(word_list, count, last_count))]

\* Histogram.top_words: raised is "none" or "IndexError", value the list returned
top_words(self, count) ==
    LET word_list == SortedReverse({<<k, self.words[k]>> : k \in DOMAIN self.words})
    IN  IF Len(word_list) < count THEN [raised |-> "none", value |-> word_list]
        ELSE IF ~IndexOK(word_list, count - 1) THEN [raised |-> "IndexError", value |-> <<>>]
        ELSE LET last_count == PyIndex(word_list, count - 1)[2]
             IN  [raised |-> "none",
                  value |-> PySlice(word_list, TieLoop(word_list, count, last_count))]

DefaultCount == 10

(***************************************************************************)
(* histogram_from_file and main.                                           *)
(***************************************************************************)
\* "Spam eggs\nspam!\n", "Eggs\n", "SPAM ham\n" and the empty text
Text1 == Spam \o <<32>> \o eggs \o <<10>> \o spam \o <<33, 10>>
Text2 == Eggs \o <<10>>
Text3 == SPAM \o <<32>> \o ham \o <<10>>
EmptyText == <<>>

\* a file of the file system: readable, missing (open fails), or failing when
\* read after a successful open
TextFile(t) == [kind |-> "text", data |-> t]
MissingFile == [kind |-> "missing"]
BrokenFile == [kind |-> "broken"]

\* the names on the command line; "-" is standard input
FileArgs == {"-", "f1", "f2"}

\* files = [None if f == '-' else f for f in files]
Massage(fs) == [i \in 1..Len(fs) |-> IF fs[i] = "-" THEN [none |-> TRUE]
                                      ELSE [none |-> FALSE, name |-> fs[i]]]

\* files.count(x)
ListCount(list, x) == Cardinality({i \in 1..Len(list) : list[i] = x})

\* the 'for word in tokenize(..): hist.add(word)' loop
RECURSIVE AddAll(_, _)
AddAll(hist, words) ==
    IF words = <<>> THEN hist ELSE AddAll(add(hist, words[1]), Tail(words))

\* histogram_from_file with fh = open(fname) ... fh.close() for the 'with'
\* block: an error while reading skips the close
histogram_from_file_no_with(fname, sin, fsys) ==
    IF fname.none
    THEN [raised |-> "none", hist |-> AddAll(Histogram, tokenize(sin)),
          opened |-> 0, closed |-> 0, readStdin |-> TRUE]
    ELSE LET f == fsys[fname.name]
         IN  IF f.kind = "missing"
             THEN [raised |-> "IOError", hist |-> NoObj,
                   opened |-> 0, closed |-> 0, readStdin |-> FALSE]
             ELSE IF f.kind = "broken"
             THEN [raised |-> "IOError", hist |-> NoObj,
                   opened |-> 1, closed |-> 0, readStdin |-> FALSE]
             ELSE [raised |-> "none", hist |-> AddAll(Histogram, tokenize(f.data)),
                   opened |-> 1, closed |-> 1, readStdin |-> FALSE]

\* histogram_from_file(fname) run where sys.stdin holds the text sin and the
\* file system is fsys: raised is "none" or "IOError", hist the Histogram
\* returned, opened counts the files opened, closed the streams closed (a
\* file by leaving the 'with' block; sys.stdin is never closed), readStdin
\* tells that sys.stdin was read
histogram_from_file(fname, sin, fsys) ==
    IF fname.none
    THEN [raised |-> "none", hist |-> AddAll(Histogram, tokenize(sin)),
          opened |-> 0, closed |-> 0, readStdin |-> TRUE]
    ELSE LET f == fsys[fname.name]
         IN  IF f.kind = "missing"
             THEN [raised |-> "IOError", hist |-> NoObj,
                   opened |-> 0, closed |-> 0, readStdin |-> FALSE]
             ELSE IF f.kind = "broken"
             THEN [raised |-> "IOError", hist |-> NoObj,
                   opened |-> 1, closed |-> 1, readStdin |-> FALSE]
             ELSE [raised |-> "none", hist |-> AddAll(Histogram, tokenize(f.data)),
                   opened |-> 1, closed |-> 1, readStdin |-> FALSE]

DEFAULT_WORKERS == 4

\* the workers argument of main: None, a non-integer, or an integer
WorkersNone == [kind |-> "None"]
WorkersStr == [kind |-> "str"]
WorkersInt(n) == [kind |-> "int", val |-> n]

\* cpu_count() has not been called
NotAsked == [asked |-> FALSE]

\* multiprocessing.cpu_count(): a number, or NotImplementedError
CpuCounts == {[ok |-> FALSE]} \cup {[ok |-> TRUE, n |-> c] : c \in 1..MaxCpu}

\* sum(results, Histogram()): start + results[0] + results[1] + ...
RECURSIVE SumFrom(_, _)
SumFrom(acc, results) ==
    IF results = <<>> THEN acc
    ELSE SumFrom(__add__(acc, results[1], FALSE).new, Tail(results))

\* '%.2f' % ((word_cnt * 100.0) / total), in hundredths of a percent
Percent(word_cnt, total) == (2 * word_cnt * 10000 + total) \div (2 * total)

\* the lines printed for the top words
RECURSIVE TopLines(_, _, _)
TopLines(top, percentages, total) ==
    IF top = <<>> THEN <<>>
    ELSE <<IF percentages
           THEN [line |-> "percent", word |-> top[1][1], value |-> Percent(top[1][2], total)]
           ELSE [line |-> "count", word |-> top[1][1], value |-> top[1][2]]>>
         \o TopLines(Tail(top), percentages, total)

\* the report of main from 'print(Total number of words ..)' on: the lines
\* written to out, and the exception that ended it, if any
Report(final_result, count, percentages) ==
    LET totals == <<[line |-> "total", value |-> total_words(final_result)],
                    [line |-> "distinct", value |-> distinct_words(final_result)]>>
        top == top_words(final_result, count)
    IN  IF top.raised # "none" THEN [raised |-> top.raised, out |-> totals]
        ELSE IF percentages /\ top.value # <<>> /\ total_words(final_result) = 0
        THEN [raised |-> "ZeroDivisionError",
              out |-> totals \o <<[line |-> "blank"], [line |-> "top", value |-> Len(top.value)]>>]
        ELSE [raised |-> "none",
              out |-> totals \o <<[line |-> "blank"], [line |-> "top", value |-> Len(top.value)]>>
                      \o TopLines(top.value, percentages, total_words(final_result))]

(***************************************************************************)
(* State: a heap of Histogram objects addressed by reference, the heap     *)
(* before the last operation, and the last operation with its arguments    *)
(* and result.                                                             *)
(***************************************************************************)
VARIABLES heap, prev, last

histVars == <<heap, prev, last>>

(***************************************************************************)
(* State of a run of main: its arguments (files, workers), the file system *)
(* and the text waiting on standard input, the position of main (pc), the  *)
(* exception that ended it (err), the size of the pool created (0: none),  *)
(* the number of cpu_count() calls and the outcome of the last one (cpu),  *)
(* one task per source (who processes it, files opened and closed for it), *)
(* the Histograms returned, the sum, and the lines written to out.         *)
(***************************************************************************)
VARIABLES files, workers, fs, stdin, pc, err, pool, cpuQueries, cpu, task, results,
          final_result, out

mainVars == <<files, workers, fs, stdin, pc, err, pool, cpuQueries, cpu, task, results,
              final_result, out>>

vars == <<histVars, mainVars>>

\* the references of the objects: the three Histograms A, B, C of the merge
\* laws, the third being also the object a + creates
Refs == 1..3

Allocated(h, r) == h[r] # NoObj

NoOp == [op |-> "none"]

\* no Histogram object exists
HeapEmpty ==
    /\ heap = [r \in Refs |-> NoObj]
    /\ prev = heap
    /\ last = NoOp

\* main is not running
MainIdle ==
    /\ files = <<>>
    /\ workers = WorkersNone
    /\ fs = [n \in {"f1", "f2"} |-> MissingFile]
    /\ stdin = [text |-> EmptyText, consumed |-> FALSE]
    /\ pc = "idle"
    /\ err = "none"
    /\ pool = 0
    /\ cpuQueries = 0
    /\ cpu = NotAsked
    /\ task = <<>>
    /\ results = <<>>
    /\ final_result = NoObj
    /\ out = <<>>

Init == HeapEmpty /\ MainIdle

\* h = Histogram()
New(r) ==
    /\ ~Allocated(heap, r)
    /\ \A q \in Refs : q < r => Allocated(heap, q)
    /\ heap' = [heap EXCEPT ![r] = Histogram]
    /\ prev' = heap
    /\ last' = [op |-> "init", self |-> r]
    /\ UNCHANGED mainVars

\* heap[r].add(w)
Add(r, w) ==
    /\ Allocated(heap, r)
    /\ heap[r].total < MaxTotal
    /\ heap' = [heap EXCEPT ![r] = add(heap[r], w)]
    /\ prev' = heap
    /\ last' = [op |-> "add", self |-> r, word |-> w]
    /\ UNCHANGED mainVars

\* heap[a] += heap[b]
IAdd(a, b) ==
    /\ Allocated(heap, a) /\ Allocated(heap, b)
    /\ heap[a].total + heap[b].total <= MaxTotal
    /\ LET res == __iadd__(heap[a], heap[b], a = b)
       IN  /\ heap' = [heap EXCEPT ![b] = res.other, ![a] = res.self]
           /\ last' = [op |-> "iadd", self |-> a, other |-> b, ret |-> res.ret]
    /\ prev' = heap
    /\ UNCHANGED mainVars

\* heap[a] += 'other'
IAddOther(a) ==
    /\ Allocated(heap, a)
    /\ LET res == __iadd__(heap[a], NotAHistogram, FALSE)
       IN  /\ heap' = [heap EXCEPT ![a] = res.self]
           /\ last' = [op |-> "iadd_other", self |-> a, ret |-> res.ret]
    /\ prev' = heap
    /\ UNCHANGED mainVars

\* r = heap[a] + heap[b]; r is the slot of the object self.__class__() creates
DAdd(a, b, r) ==
    /\ Allocated(heap, a) /\ Allocated(heap, b)
    /\ ~Allocated(heap, r)
    /\ \A q \in Refs : q < r => Allocated(heap, q)
    /\ heap[a].total + heap[b].total <= MaxTotal
    /\ LET res == __add__(heap[a], heap[b], a = b)
       IN  /\ heap' = [heap EXCEPT ![b] = res.other, ![a] = res.self, ![r] = res.new]
           /\ last' = [op |-> "dadd", self |-> a, other |-> b, ret |-> res.ret, res |-> r]
    /\ prev' = heap
    /\ UNCHANGED mainVars

\* heap[a] + 'other'
DAddOther(a) ==
    /\ Allocated(heap, a)
    /\ LET res == __add__(heap[a], NotAHistogram, FALSE)
       IN  /\ heap' = [heap EXCEPT ![a] = res.self]
           /\ last' = [op |-> "dadd_other", self |-> a, ret |-> res.ret]
    /\ prev' = heap
    /\ UNCHANGED mainVars

\* heap[r].top_words(n)
TopWords(r, n) ==
    /\ Allocated(heap, r)
    /\ heap' = heap
    /\ prev' = heap
    /\ last' = [op |-> "top_words", self |-> r, count |-> n, default |-> FALSE,
                result |-> top_words(heap[r], n)]
    /\ UNCHANGED mainVars

\* heap[r].top_words(), the count left to its default
TopWordsDefault(r) ==
    /\ Allocated(heap, r)
    /\ heap' = heap
    /\ prev' = heap
    /\ last' = [op |-> "top_words", self |-> r, count |-> DefaultCount, default |-> TRUE,
                result |-> top_words(heap[r], DefaultCount)]
    /\ UNCHANGED mainVars

Next ==
    \/ \E r \in Refs : New(r)
    \/ \E r \in Refs, w \in AddWords : Add(r, w)
    \/ \E a, b \in Refs : IAdd(a, b)
    \/ \E a \in Refs : IAddOther(a)
    \/ \E a, b, r \in Refs : DAdd(a, b, r)
    \/ \E a \in Refs : DAddOther(a)

Spec == Init /\ [][Next]_vars

(***************************************************************************)
(* top_words as a function of the Histogram: the Histograms are those with *)
(* keys among word1 .. word5 and counts in 1 .. MaxWordCount, and the      *)
(* Histogram of test_top_words_small_count_with_tie.                       *)
(***************************************************************************)
SumCounts(words) ==
    LET RECURSIVE S(_)
        S(keys) == IF keys = {} THEN 0
                   ELSE LET k == CHOOSE x \in keys : TRUE IN words[k] + S(keys \ {k})
    IN  S(DOMAIN words)

HistOf(words) == [cls |-> "Histogram", words |-> words, total |-> SumCounts(words)]

TieWords ==
    [k \in TopKeys |-> IF k = word(1) THEN 50 ELSE IF k = word(5) THEN 10 ELSE 40]

TopHists ==
    {HistOf(TieWords)} \cup
    UNION {{HistOf(f) : f \in [keys -> 1..MaxWordCount]} : keys \in SUBSET TopKeys}

TopInit ==
    /\ \E h \in TopHists : heap = [r \in Refs |-> IF r = 1 THEN h ELSE NoObj]
    /\ prev = heap
    /\ last = NoOp
    /\ MainIdle

TopNext ==
    \/ \E r \in Refs, n \in 0..MaxCountArg : TopWords(r, n)
    \/ \E r \in Refs : TopWordsDefault(r)

TopSpec == TopInit /\ [][TopNext]_vars

(***************************************************************************)
(* main.  The arguments and the environment are chosen initially; count    *)
(* and percentages are read only by the report and are chosen there.       *)
(***************************************************************************)
FileLists == UNION {[1..n -> FileArgs] : n \in 1..MaxFiles}

WorkersArgs == {WorkersNone, WorkersStr} \cup {WorkersInt(n) : n \in -1..MaxWorkers}

FileSystems ==
    {[n \in {"f1", "f2"} |-> IF n = "f1" THEN a ELSE b] :
        a \in {TextFile(Text1), TextFile(EmptyText)},
        b \in {TextFile(Text2), MissingFile, BrokenFile}}

ReportCounts == {0, 1, 2, DefaultCount}

\* the indices of the sources and the identities of the pool workers
Tasks == 1..MaxFiles

WorkerIds == 1..Max(Max(MaxWorkers, MaxCpu), DEFAULT_WORKERS)

\* a source not yet taken; runs counts the calls of histogram_from_file on it
PendingTask == [state |-> "pending", by |-> 0, runs |-> 0, opened |-> 0, closed |-> 0]

MainInit ==
    /\ HeapEmpty
    /\ files \in FileLists
    /\ workers \in WorkersArgs
    /\ fs \in FileSystems
    /\ \E t \in {Text3, EmptyText} : stdin = [text |-> t, consumed |-> FALSE]
    /\ pc = "start"
    /\ err = "none"
    /\ pool = 0
    /\ cpuQueries = 0
    /\ cpu = NotAsked
    /\ task = [i \in 1..Len(files) |-> PendingTask]
    /\ results = [i \in 1..Len(files) |-> NoObj]
    /\ final_result = NoObj
    /\ out = <<>>

\* the text sys.stdin yields in the process of main
CallerStdin == IF stdin.consumed THEN EmptyText ELSE stdin.text

\* the text sys.stdin yields in a pool worker: multiprocessing closes the
\* worker's sys.stdin and reopens it on os.devnull
WorkerStdin == EmptyText

\* main counting the "-" of files only after the pool is created
MainStart_files_checked_late ==
    /\ pc = "start"
    /\ IF workers.kind = "None"
       THEN /\ IF ListCount(files, "-") > 1
               THEN pc' = "raised" /\ err' = "ValueError"
               ELSE pc' = "serial" /\ UNCHANGED err
            /\ UNCHANGED <<pool, cpuQueries, cpu>>
       ELSE IF workers.kind # "int" \/ workers.val < 0
       THEN pc' = "raised" /\ err' = "ValueError" /\ UNCHANGED <<pool, cpuQueries, cpu>>
       ELSE /\ IF workers.val = 0
               THEN /\ \E c \in CpuCounts :
                          /\ cpu' = c
                          /\ pool' = IF c.ok THEN c.n ELSE DEFAULT_WORKERS
                    /\ cpuQueries' = cpuQueries + 1
               ELSE pool' = workers.val /\ UNCHANGED <<cpuQueries, cpu>>
            /\ IF ListCount(files, "-") > 1
               THEN pc' = "raised" /\ err' = "ValueError"
               ELSE pc' = "map" /\ UNCHANGED err
    /\ UNCHANGED <<files, workers, fs, stdin, task, results, final_result, out, histVars>>

\* main using DEFAULT_WORKERS for workers = 0 without asking for the CPU count
MainStart_default_for_zero ==
    /\ pc = "start"
    /\ IF ListCount(files, "-") > 1
          \/ (workers.kind # "None" /\ (workers.kind # "int" \/ workers.val < 0))
       THEN pc' = "raised" /\ err' = "ValueError" /\ UNCHANGED pool
       ELSE IF workers.kind = "None"
       THEN pc' = "serial" /\ UNCHANGED <<err, pool>>
       ELSE /\ pool' = IF workers.val = 0 THEN DEFAULT_WORKERS ELSE workers.val
            /\ pc' = "map"
            /\ UNCHANGED err
    /\ UNCHANGED <<cpuQueries, cpu>>
    /\ UNCHANGED <<files, workers, fs, stdin, task, results, final_result, out, histVars>>

\* main, from its entry to the creation of the pool: the checks of the
\* arguments, cpu_count() and Pool(workers)
MainStart ==
    /\ pc = "start"
    /\ IF ListCount(files, "-") > 1
       THEN pc' = "raised" /\ err' = "ValueError" /\ UNCHANGED <<pool, cpuQueries, cpu>>
       ELSE IF workers.kind = "None"
       THEN pc' = "serial" /\ UNCHANGED <<err, pool, cpuQueries, cpu>>
       ELSE IF workers.kind # "int"
       THEN pc' = "raised" /\ err' = "ValueError" /\ UNCHANGED <<pool, cpuQueries, cpu>>
       ELSE IF workers.val < 0
       THEN pc' = "raised" /\ err' = "ValueError" /\ UNCHANGED <<pool, cpuQueries, cpu>>
       ELSE IF workers.val = 0
       THEN /\ \E c \in CpuCounts :
                  /\ cpu' = c
                  /\ pool' = IF c.ok THEN c.n ELSE DEFAULT_WORKERS
            /\ cpuQueries' = cpuQueries + 1
            /\ pc' = "map"
            /\ UNCHANGED err
       ELSE /\ pool' = workers.val
            /\ pc' = "map"
            /\ UNCHANGED <<err, cpuQueries, cpu>>
    /\ UNCHANGED <<files, workers, fs, stdin, task, results, final_result, out, histVars>>

\* the serial loop catching the error of a source and going on with an empty
\* Histogram for it
SerialStep_error_swallowed(i) ==
    /\ pc = "serial"
    /\ i \in 1..Len(files)
    /\ task[i].state = "pending"
    /\ \A j \in 1..(i - 1) : task[j].state # "pending"
    /\ LET r == histogram_from_file(Massage(files)[i], CallerStdin, fs)
       IN  /\ task' = [task EXCEPT ![i] =
                  [state |-> IF r.raised = "none" THEN "done" ELSE "failed", by |-> 0,
                   runs |-> task[i].runs + 1, opened |-> r.opened, closed |-> r.closed]]
           /\ results' = [results EXCEPT ![i] = IF r.raised = "none" THEN r.hist ELSE Histogram]
           /\ stdin' = [stdin EXCEPT !.consumed = stdin.consumed \/ r.readStdin]
           /\ pc' = IF i = Len(files) THEN "sum" ELSE pc
           /\ UNCHANGED err
    /\ UNCHANGED <<files, workers, fs, pool, cpuQueries, cpu, final_result, out, histVars>>

\* one element of [histogram_from_file(f) for f in files], in list order
SerialStep(i) ==
    /\ pc = "serial"
    /\ i \in 1..Len(files)
    /\ task[i].state = "pending"
    /\ \A j \in 1..(i - 1) : task[j].state = "done"
    /\ LET r == histogram_from_file(Massage(files)[i], CallerStdin, fs)
       IN  /\ task' = [task EXCEPT ![i] =
                  [state |-> IF r.raised = "none" THEN "done" ELSE "failed", by |-> 0,
                   runs |-> task[i].runs + 1, opened |-> r.opened, closed |-> r.closed]]
           /\ results' = [results EXCEPT ![i] = r.hist]
           /\ stdin' = [stdin EXCEPT !.consumed = stdin.consumed \/ r.readStdin]
           /\ IF r.raised # "none" THEN pc' = "raised" /\ err' = r.raised
              ELSE IF i = Len(files) THEN pc' = "sum" /\ UNCHANGED err
              ELSE UNCHANGED <<pc, err>>
    /\ UNCHANGED <<files, workers, fs, pool, cpuQueries, cpu, final_result, out, histVars>>

\* pool.map handing a source that a worker is still processing to a second
\* worker
WorkerStart_running_retaken(w, i) ==
    /\ pc = "map"
    /\ w \in 1..pool
    /\ i \in 1..Len(files)
    /\ task[i].state \in {"pending", "running"}
    /\ \A j \in 1..Len(files) : ~(task[j].state = "running" /\ task[j].by = w)
    /\ task' = [task EXCEPT ![i] = [@ EXCEPT !.state = "running", !.by = w,
                                               !.runs = @ + 1]]
    /\ UNCHANGED <<files, workers, fs, stdin, pc, err, pool, cpuQueries, cpu, results,
                   final_result, out, histVars>>

\* pool.map: worker w takes the pending source i
WorkerStart(w, i) ==
    /\ pc = "map"
    /\ w \in 1..pool
    /\ i \in 1..Len(files)
    /\ task[i].state = "pending"
    /\ \A j \in 1..Len(files) : ~(task[j].state = "running" /\ task[j].by = w)
    /\ task' = [task EXCEPT ![i] = [@ EXCEPT !.state = "running", !.by = w,
                                               !.runs = @ + 1]]
    /\ UNCHANGED <<files, workers, fs, stdin, pc, err, pool, cpuQueries, cpu, results,
                   final_result, out, histVars>>

\* pool.map: worker w ends histogram_from_file on source i and sends the
\* result back
WorkerFinish(w, i) ==
    /\ pc = "map"
    /\ i \in 1..Len(files)
    /\ task[i].state = "running" /\ task[i].by = w
    /\ LET r == histogram_from_file(Massage(files)[i], WorkerStdin, fs)
       IN  /\ task' = [task EXCEPT ![i] =
                  [state |-> IF r.raised = "none" THEN "done" ELSE "failed", by |-> w,
                   runs |-> task[i].runs, opened |-> r.opened, closed |-> r.closed]]
           /\ results' = [results EXCEPT ![i] = r.hist]
    /\ UNCHANGED <<files, workers, fs, stdin, pc, err, pool, cpuQueries, cpu,
                   final_result, out, histVars>>

\* pool.map returns the list of results once every source is done
PoolMapReturn ==
    /\ pc = "map"
    /\ \A i \in 1..Len(files) : task[i].state = "done"
    /\ pc' = "sum"
    /\ UNCHANGED <<files, workers, fs, stdin, err, pool, cpuQueries, cpu, task, results,
                   final_result, out, histVars>>

\* pool.map raises in main the exception of a failed source
PoolMapRaise ==
    /\ pc = "map"
    /\ \E i \in 1..Len(files) : task[i].state = "failed"
    /\ pc' = "raised"
    /\ err' = "IOError"
    /\ UNCHANGED <<files, workers, fs, stdin, pool, cpuQueries, cpu, task, results,
                   final_result, out, histVars>>

\* final_result = sum(results, Histogram())
MainSum ==
    /\ pc = "sum"
    /\ final_result' = SumFrom(Histogram, results)
    /\ pc' = "report"
    /\ UNCHANGED <<files, workers, fs, stdin, err, pool, cpuQueries, cpu, task, results,
                   out, histVars>>

\* the report, to the end of main
MainReport(count, percentages) ==
    /\ pc = "report"
    /\ LET r == Report(final_result, count, percentages)
       IN  /\ out' = out \o r.out
           /\ IF r.raised = "none" THEN pc' = "done" /\ UNCHANGED err
              ELSE pc' = "raised" /\ err' = r.raised
    /\ UNCHANGED <<files, workers, fs, stdin, pool, cpuQueries, cpu, task, results,
                   final_result, histVars>>

MainNext ==
    \/ MainStart
    \/ \E i \in Tasks : SerialStep(i)
    \/ \E w \in WorkerIds, i \in Tasks : WorkerStart(w, i)
    \/ \E w \in WorkerIds, i \in Tasks : WorkerFinish(w, i)
    \/ PoolMapReturn
    \/ PoolMapRaise
    \/ MainSum
    \/ \E count \in ReportCounts, percentages \in BOOLEAN : MainReport(count, percentages)

MainSpec == MainInit /\ [][MainNext]_vars

(***************************************************************************)
(* The tokenizer as a function of its input: a text is drawn initially and *)
(* waits on the stream stdin; it is tokenized as a string and as a stream. *)
(***************************************************************************)
\* the characters of the texts: "a", "Z", "0", " ", newline, "_"
TextChars == {97, 90, 48, 32, 10, 95}

Texts == UNION {[1..n -> TextChars] : n \in 0..MaxTextLen}

TokInit ==
    /\ HeapEmpty
    /\ files = <<>>
    /\ workers = WorkersNone
    /\ fs = [n \in {"f1", "f2"} |-> MissingFile]
    /\ \E t \in Texts : stdin = [text |-> t, consumed |-> FALSE]
    /\ pc = "idle"
    /\ err = "none"
    /\ pool = 0
    /\ cpuQueries = 0
    /\ cpu = NotAsked
    /\ task = <<>>
    /\ results = <<>>
    /\ final_result = NoObj
    /\ out = <<>>

\* list(_tokenize_text(text)) on the text as a string
TokenizeText ==
    /\ last' = [op |-> "_tokenize_text", text |-> stdin.text,
                result |-> _tokenize_text(stdin.text)]
    /\ UNCHANGED <<heap, prev, mainVars>>

\* list(tokenize(fh)) on the stream, which is read to its end
Tokenize ==
    /\ last' = [op |-> "tokenize", text |-> CallerStdin, result |-> tokenize(CallerStdin)]
    /\ stdin' = [stdin EXCEPT !.consumed = TRUE]
    /\ UNCHANGED <<heap, prev, files, workers, fs, pc, err, pool, cpuQueries, cpu, task,
                   results, final_result, out>>

TokNext == TokenizeText \/ Tokenize

TokSpec == TokInit /\ [][TokNext]_vars

(***************************************************************************)
(* Properties of the Histogram operations (specification Spec).            *)
(***************************************************************************)
Range(seq) == {seq[i] : i \in 1..Len(seq)}

\* the count of w in Histogram h, a missing word counting as 0
CountOf(h, w) == IF w \in DOMAIN h.words THEN h.words[w] ELSE 0

\* h and g have the same total and the same per-word counts
SameHistogram(h, g) ==
    /\ h.total = g.total
    /\ DOMAIN h.words = DOMAIN g.words
    /\ \A w \in DOMAIN h.words : h.words[w] = g.words[w]

\* the Histogram with the counts of a and of b added word by word
MergeOf(a, b) ==
    [cls |-> "Histogram",
     words |-> [w \in DOMAIN a.words \cup DOMAIN b.words |-> CountOf(a, w) + CountOf(b, w)],
     total |-> a.total + b.total]

\* C2: in every reachable state every Histogram of the heap (receiver,
\* argument or result of add, += and +) has total_words equal to the sum of
\* its per-word counts.
C2_TotalIsSumOfCounts ==
    \A r \in Refs :
        Allocated(heap, r) => total_words(heap[r]) = SumCounts(heap[r].words)

\* a + has just produced a Histogram with two distinct words from operands
\* built by add
C2_Witness ==
    /\ last.op = "dadd"
    /\ distinct_words(heap[last.res]) = 2
    /\ total_words(heap[last.res]) >= 3

\* C3: merge is commutative and associative: for all Histograms A, B, C of
\* the heap, A+B and B+A have the same total and per-word counts, and so have
\* (A+B)+C and A+(B+C).
C3_MergeCommutativeAssociative ==
    \A a, b \in Refs :
        (Allocated(heap, a) /\ Allocated(heap, b)) =>
            LET A == heap[a]
                B == heap[b]
                AB == __add__(A, B, a = b).new
                BA == __add__(B, A, a = b).new
            IN  /\ AB.total = BA.total /\ AB.words = BA.words
                /\ \A c \in Refs :
                      Allocated(heap, c) =>
                          LET C == heap[c]
                              AB_C == __add__(AB, C, FALSE).new
                              A_BC == __add__(A, __add__(B, C, b = c).new, FALSE).new
                          IN  AB_C.total = A_BC.total /\ AB_C.words = A_BC.words

\* three different Histograms, two of them sharing a word with different
\* counts, the third holding a word the first lacks
C3_Witness ==
    /\ \A r \in 1..3 : Allocated(heap, r)
    /\ spam \in DOMAIN heap[1].words /\ spam \in DOMAIN heap[2].words
    /\ heap[1].words[spam] # heap[2].words[spam]
    /\ eggs \in DOMAIN heap[3].words /\ eggs \notin DOMAIN heap[1].words

\* C4: after A += B, and for the result of A + B, every word's count is
\* count_A + count_B, the keys are the union of the keys, the total is
\* total_A + total_B; merging an empty Histogram changes nothing.
C4_MergeAddsCounts ==
    /\ last.op = "iadd" =>
          /\ heap[last.self] = MergeOf(prev[last.self], prev[last.other])
          /\ prev[last.other] = Histogram => heap[last.self] = prev[last.self]
    /\ last.op = "dadd" =>
          /\ heap[last.res] = MergeOf(prev[last.self], prev[last.other])
          /\ prev[last.other] = Histogram => SameHistogram(heap[last.res], prev[last.self])

\* an in-place merge of two different objects with a common word and a word
\* of the argument the receiver lacked
C4_Witness ==
    /\ last.op = "iadd"
    /\ last.self # last.other
    /\ spam \in DOMAIN prev[last.self].words /\ spam \in DOMAIN prev[last.other].words
    /\ eggs \notin DOMAIN prev[last.self].words /\ eggs \in DOMAIN prev[last.other].words

\* the lowercase form of each word handed to add
LowercaseOf(w) == IF w = eggs THEN eggs ELSE spam

IsLowercase(w) == \A i \in 1..Len(w) : ~(w[i] >= 65 /\ w[i] <= 90)

\* C9: add(word) raises the count of the lowercase form of word by 1 and the
\* total by 1 and changes no other count; "Spam", "sPAM", "SPAM" added to an
\* empty Histogram give one key with count 3 and total 3; every key stored is
\* lowercase.
C9_AddCountsLowercase ==
    /\ last.op = "add" =>
          LET before == prev[last.self]
              after == heap[last.self]
              key == LowercaseOf(last.word)
          IN  /\ DOMAIN after.words = DOMAIN before.words \cup {key}
              /\ after.words[key] = CountOf(before, key) + 1
              /\ \A w \in DOMAIN after.words \ {key} : after.words[w] = before.words[w]
              /\ total_words(after) = total_words(before) + 1
    /\ LET h == add(add(add(Histogram, Spam), sPAM), SPAM)
       IN  distinct_words(h) = 1 /\ total_words(h) = 3 /\ h.words = (spam :> 3)
    /\ \A r \in Refs :
          Allocated(heap, r) => \A w \in DOMAIN heap[r].words : IsLowercase(w)

\* the third add of a differently capitalised "spam" to one Histogram
C9_Witness ==
    /\ last.op = "add"
    /\ last.word = SPAM
    /\ prev[last.self].words = (spam :> 2)
    /\ heap[last.self].words = (spam :> 3)
    /\ total_words(heap[last.self]) = 3
    /\ distinct_words(heap[last.self]) = 1

\* the objects an operation may change: the receiver of add and +=, the
\* object created by __init__ and by +
Written ==
    IF last.op \in {"init", "add", "iadd", "iadd_other"} THEN {last.self}
    ELSE IF last.op = "dadd" THEN {last.res}
    ELSE {}

\* C10 as stated: after A += B the counts and total of B are unchanged, for
\* every A and B; after R = A + B both operands are unchanged and R is a new
\* Histogram.
C10_ArgumentNeverModified ==
    /\ last.op = "iadd" => heap[last.other] = prev[last.other]
    /\ last.op = "dadd" =>
          /\ heap[last.self] = prev[last.self]
          /\ heap[last.other] = prev[last.other]
          /\ last.res \notin {last.self, last.other}
          /\ ~Allocated(prev, last.res)

\* C10 amended: after A += B with B another object than A the counts and
\* total of B are unchanged (A += A doubles A, which is its own argument);
\* after R = A + B, also when B is A, both operands are unchanged and R is a
\* new object; no operation changes an object other than its receiver or
\* the object it creates.
C10_OtherObjectNeverModified ==
    /\ (last.op = "iadd" /\ last.other # last.self) => heap[last.other] = prev[last.other]
    /\ last.op = "dadd" =>
          /\ heap[last.self] = prev[last.self]
          /\ heap[last.other] = prev[last.other]
          /\ last.res \notin {last.self, last.other}
          /\ ~Allocated(prev, last.res)
    /\ \A r \in Refs \ Written : heap[r] = prev[r]

\* an add to the result of a + whose operands still hold their counts
C10_Witness ==
    /\ last.op = "add"
    /\ last.self = 3
    /\ total_words(heap[1]) > 0 /\ total_words(heap[2]) > 0
    /\ heap[3] # MergeOf(heap[1], heap[2])
    /\ prev[3] = MergeOf(heap[1], heap[2])

\* C11: += and + with an operand that is not a Histogram return
\* NotImplemented, create no object and leave every object of the heap, the
\* receiver included, with the counts and total it had; a merge of two
\* Histograms is never partial: its target holds every count of both operands
\* and the sum of the totals.
C11_NonHistogramNotMerged ==
    /\ last.op \in {"iadd_other", "dadd_other"} =>
          /\ last.ret = "NotImplemented"
          /\ heap = prev
    /\ last.op = "iadd" =>
          /\ last.ret = "self"
          /\ heap[last.self] = MergeOf(prev[last.self], prev[last.other])
    /\ last.op = "dadd" =>
          /\ last.ret = "new"
          /\ heap[last.res] = MergeOf(prev[last.self], prev[last.other])

\* a += with a non-Histogram on a receiver holding two words
C11_Witness ==
    /\ last.op = "iadd_other"
    /\ last.ret = "NotImplemented"
    /\ distinct_words(heap[last.self]) = 2
    /\ total_words(prev[last.self]) = 3

\* a + with a non-Histogram on a receiver holding two words
C11_WitnessAdd ==
    /\ last.op = "dadd_other"
    /\ last.ret = "NotImplemented"
    /\ distinct_words(heap[last.self]) = 2
    /\ \E r \in Refs : ~Allocated(heap, r)

(***************************************************************************)
(* Properties of top_words (specification TopSpec).                        *)
(***************************************************************************)
Items(h) == {<<k, h.words[k]>> : k \in DOMAIN h.words}

TopCalled == last.op = "top_words"

C6_TieInclusion ==
    (TopCalled /\ last.count >= 1 /\ distinct_words(heap[last.self]) >= last.count) =>
        LET res == last.result.value
            n == last.count
            items == Items(heap[last.self])
        IN  /\ last.result.raised = "none"
            /\ Len(res) >= n
            /\ Cardinality(Range(res)) = Len(res)
            /\ Cardinality({x \in items : x[2] > res[n][2]}) < n
            /\ Range(res) = {x \in items : x[2] >= res[n][2]}
            /\ \A i \in (n + 1)..Len(res) : res[i][2] = res[n][2]

\* top_words returned more than n entries and left some out
C6_Witness ==
    /\ TopCalled
    /\ last.count >= 2
    /\ Len(last.result.value) > last.count
    /\ Len(last.result.value) < distinct_words(heap[last.self])

\* C7: for the Histogram {word1:50, word2:40, word3:40, word4:40, word5:10},
\* top_words(3) returns [(word1,50), (word4,40), (word3,40), (word2,40)].
C7_TieExample ==
    (TopCalled /\ heap[last.self].words = TieWords /\ last.count = 3) =>
        /\ last.result.raised = "none"
        /\ last.result.value =
              <<<<word(1), 50>>, <<word(4), 40>>, <<word(3), 40>>, <<word(2), 40>>>>

C7_Witness ==
    /\ TopCalled
    /\ heap[last.self].words = TieWords
    /\ total_words(heap[last.self]) = 180
    /\ last.count = 3
    /\ Len(last.result.value) = 4

C8_WitnessExact ==
    /\ TopCalled
    /\ ~last.default
    /\ last.count >= 2
    /\ distinct_words(heap[last.self]) = last.count

\* C18: top_words(0) raises no error and returns the empty list, for every
\* Histogram, the empty one and those whose words all have the same count
\* included.
C18_TopWordsZeroIsEmpty ==
    (TopCalled /\ last.count = 0) =>
        /\ last.result.raised = "none"
        /\ last.result.value = <<>>

\* what top_words(0) does: IndexError on the empty Histogram (word_list[-1]
\* of an empty list), every entry when all the words have the same count
\* (the count of word_list[-1] is then the count of word_list[0], and the
\* loop over the ties runs to the end), the empty list otherwise
TopWordsZeroOutcomes ==
    (TopCalled /\ last.count = 0) =>
        LET h == heap[last.self]
        IN  IF distinct_words(h) = 0
            THEN last.result.raised = "IndexError"
            ELSE /\ last.result.raised = "none"
                 /\ IF \A v, w \in DOMAIN h.words : h.words[v] = h.words[w]
                    THEN Range(last.result.value) = Items(h)
                    ELSE last.result.value = <<>>

(***************************************************************************)
(* Properties of main (specification MainSpec).                            *)
(***************************************************************************)
\* the Histograms of the sources when main processes them itself, in order
SerialResults ==
    [i \in 1..Len(files) |-> histogram_from_file(Massage(files)[i], stdin.text, fs).hist]

\* C1: whenever main has summed the results, for every list of sources (one
\* "-" included) and every valid workers argument, final_result has the
\* total and the per-word counts (hence the distinct count and the top
\* words) of the sum of the Histograms serial processing gives.
C1_SameAsSerial ==
    final_result # NoObj =>
        LET serial == SumFrom(Histogram, SerialResults)
        IN  /\ SameHistogram(final_result, serial)
            /\ distinct_words(final_result) = distinct_words(serial)
            /\ \A n \in ReportCounts : top_words(final_result, n) = top_words(serial, n)

\* without "-" among the sources a pooled run sums to the serial result
SameAsSerialWithoutStdin ==
    (final_result # NoObj /\ ListCount(files, "-") = 0) =>
        SameHistogram(final_result, SumFrom(Histogram, SerialResults))

\* the arguments main rejects: "-" more than once in files, or workers that
\* is not an integer or is negative
InvalidArguments ==
    \/ ListCount(files, "-") > 1
    \/ workers.kind = "str"
    \/ (workers.kind = "int" /\ workers.val < 0)

\* no source has been touched: none taken by main or a worker, no file
\* opened, standard input not read, no Histogram returned
NoSourceTouched ==
    /\ \A i \in 1..Len(files) : task[i] = PendingTask /\ results[i] = NoObj
    /\ ~stdin.consumed

\* C12: with "-" more than once in files, or workers negative or not an
\* integer, main ends with ValueError, and does so with no source opened or
\* read, cpu_count() not called, no pool created and nothing written to out;
\* ValueError is raised for no other arguments.
C12_InvalidArgumentsRejectedFirst ==
    /\ (InvalidArguments /\ pc # "start") =>
          /\ pc = "raised" /\ err = "ValueError"
          /\ NoSourceTouched
          /\ cpuQueries = 0
          /\ pool = 0
          /\ final_result = NoObj
          /\ out = <<>>
    /\ err = "ValueError" => InvalidArguments

\* main has rejected a list with two "-" although workers = 0 asks for the
\* CPU count and a pool
C12_Witness ==
    /\ pc = "raised" /\ err = "ValueError"
    /\ ListCount(files, "-") = 2
    /\ workers = WorkersInt(0)
    /\ cpuQueries = 0 /\ pool = 0

\* main has rejected a negative number of workers
C12_WitnessNegative ==
    /\ pc = "raised" /\ err = "ValueError"
    /\ ListCount(files, "-") = 0
    /\ workers = WorkersInt(-1)

\* main has rejected workers that is not an integer
C12_WitnessNonInteger ==
    /\ pc = "raised" /\ err = "ValueError"
    /\ ListCount(files, "-") = 1
    /\ workers = WorkersStr

\* the sources taken so far, by main or by a worker
Touched == {i \in 1..Len(files) : task[i].state # "pending"}

\* main processes no source itself: every source taken is with a worker of
\* the pool, and the standard input of main is not read
CallerProcessesNone ==
    /\ \A i \in Touched : task[i].by \in 1..pool
    /\ ~stdin.consumed

\* C13: once main is past its checks, workers decides the mode.  None: no
\* pool, cpu_count() not called, the sources are taken by main itself (by =
\* 0) in list order, one at a time.  w > 0: a pool of exactly w workers,
\* cpu_count() not called.  0: cpu_count() is called once and the pool has
\* the detected number of workers, or DEFAULT_WORKERS = 4 when cpu_count()
\* is not implemented.  With a pool main processes no source itself.
C13_WorkersDecidesMode ==
    (pc # "start" /\ ~InvalidArguments) =>
        /\ workers.kind = "None" =>
              /\ pool = 0 /\ cpuQueries = 0 /\ cpu = NotAsked
              /\ \A i \in Touched : task[i].by = 0 /\ task[i].state # "running"
              /\ \A i \in Touched : \A j \in 1..(i - 1) : task[j].state = "done"
        /\ (workers.kind = "int" /\ workers.val > 0) =>
              /\ pool = workers.val
              /\ cpuQueries = 0 /\ cpu = NotAsked
              /\ CallerProcessesNone
        /\ (workers.kind = "int" /\ workers.val = 0) =>
              /\ cpuQueries = 1
              /\ cpu \in CpuCounts
              /\ pool = IF cpu.ok THEN cpu.n ELSE 4
              /\ CallerProcessesNone

\* a run with workers = 0 on a machine reporting 2 CPUs has ended, its two
\* sources processed by the two workers of the pool
C13_Witness ==
    /\ pc = "done"
    /\ workers = WorkersInt(0)
    /\ cpu = [ok |-> TRUE, n |-> 2]
    /\ pool = 2
    /\ Len(files) = 2
    /\ task[1].by # task[2].by

\* a run with workers = 0 has ended where cpu_count() is not implemented
C13_WitnessDefault ==
    /\ pc = "done"
    /\ workers = WorkersInt(0)
    /\ cpu = [ok |-> FALSE]
    /\ pool = 4

\* a serial run of two sources has ended
C13_WitnessSerial ==
    /\ pc = "done"
    /\ workers = WorkersNone
    /\ Len(files) = 2
    /\ stdin.consumed

\* a run with two workers asked for has ended
C13_WitnessExplicit ==
    /\ pc = "done"
    /\ workers = WorkersInt(2)
    /\ pool = 2
    /\ \E i \in 1..Len(files) : task[i].by = 2

\* the sum of the totals, and of the counts of word w, of a list of Histograms
RECURSIVE TotalOver(_)
TotalOver(hs) == IF hs = <<>> THEN 0 ELSE hs[1].total + TotalOver(Tail(hs))

RECURSIVE CountOver(_, _)
CountOver(hs, w) == IF hs = <<>> THEN 0 ELSE CountOf(hs[1], w) + CountOver(Tail(hs), w)

\* C14: histogram_from_file is never called twice on one source; once main
\* has summed the results (serial or pooled, any number of workers) every
\* source is done, was processed by exactly one call, by main itself or by
\* one worker of the pool, and returned a Histogram; final_result holds each
\* of these Histograms exactly once: its total is the sum of their totals
\* and each word's count the sum of its counts.
C14_EverySourceOnce ==
    /\ \A i \in 1..Len(files) : task[i].runs <= 1
    /\ final_result # NoObj =>
          /\ \A i \in 1..Len(files) :
                /\ task[i].state = "done"
                /\ task[i].runs = 1
                /\ task[i].by \in (IF workers.kind = "None" THEN {0} ELSE 1..pool)
                /\ isinstance_Histogram(results[i])
          /\ total_words(final_result) = TotalOver(results)
          /\ DOMAIN final_result.words = UNION {DOMAIN results[i].words : i \in 1..Len(files)}
          /\ \A w \in DOMAIN final_result.words :
                final_result.words[w] = CountOver(results, w)

\* a pooled run has ended whose two sources, sharing a word, went to two
\* different workers
C14_Witness ==
    /\ pc = "done"
    /\ files = <<"f1", "f2">>
    /\ task[1].by = 2 /\ task[2].by = 1
    /\ total_words(final_result) = 4
    /\ final_result.words[eggs] = 2

\* a serial run has ended that read the same file twice
C14_WitnessSameFileTwice ==
    /\ pc = "done"
    /\ files = <<"f1", "f1">>
    /\ workers = WorkersNone
    /\ total_words(final_result) = 6

\* processing some source has failed
SomeSourceFailed == \E i \in 1..Len(files) : task[i].state = "failed"

\* C15: once processing a source has failed with an I/O error, in a serial
\* or a pooled run, main never sums the results and never writes a line of
\* the report: final_result does not exist, out is empty, main is either
\* still inside pool.map, which can then only raise, or has ended with that
\* IOError; a serial run has ended at once.
C15_SourceErrorAbortsRun ==
    SomeSourceFailed =>
        /\ final_result = NoObj
        /\ out = <<>>
        /\ pc \in {"map", "raised"}
        /\ pc = "raised" => err = "IOError"
        /\ pc = "map" => (pool > 0 /\ ENABLED PoolMapRaise /\ ~ENABLED PoolMapReturn)

\* a pooled run has ended with the IOError of its second source, a file
\* failing while read, after its first source was processed
C15_Witness ==
    /\ pc = "raised" /\ err = "IOError"
    /\ pool = 2
    /\ files = <<"f1", "f2">>
    /\ fs["f2"] = BrokenFile
    /\ task[1].state = "done" /\ task[2].state = "failed"
    /\ total_words(results[1]) = 3

\* a serial run has ended with the IOError of a missing file after reading
\* standard input
C15_WitnessSerial ==
    /\ pc = "raised" /\ err = "IOError"
    /\ workers = WorkersNone
    /\ files = <<"-", "f2">>
    /\ fs["f2"] = MissingFile
    /\ stdin.consumed

\* the sources whose histogram_from_file call has ended
Ended == {i \in 1..Len(files) : task[i].state \in {"done", "failed"}}

\* the text histogram_from_file finds in source i: the file, or sys.stdin of
\* the process it runs in
SourceText(i) ==
    IF files[i] # "-" THEN fs[files[i]].data
    ELSE IF workers.kind = "None" THEN stdin.text
    ELSE WorkerStdin

\* h counts exactly the tokens of text, each under its lowercase form
CountsTokensOf(h, text) ==
    LET toks == tokenize(text)
    IN  /\ isinstance_Histogram(h)
        /\ total_words(h) = Len(toks)
        /\ DOMAIN h.words = {lower(toks[k]) : k \in 1..Len(toks)}
        /\ \A w \in DOMAIN h.words :
              h.words[w] = Cardinality({k \in 1..Len(toks) : lower(toks[k]) = w})

\* C16: when a call of histogram_from_file has ended: for standard input no
\* file was opened and no stream closed, and the call returned; for a named
\* file that could not be opened nothing was opened nor closed; for a named
\* file that was opened exactly one close was done, after a normal return
\* and after an error while reading alike; a call that returned gave a
\* Histogram counting exactly the tokens of its source and nothing else; a
\* call that failed gave no Histogram.
C16_OneFreshHistogramFileReleased ==
    \A i \in Ended :
        /\ files[i] = "-" =>
              /\ task[i].opened = 0 /\ task[i].closed = 0
              /\ task[i].state = "done"
        /\ files[i] # "-" =>
              /\ task[i].opened = (IF fs[files[i]].kind = "missing" THEN 0 ELSE 1)
              /\ task[i].closed = task[i].opened
              /\ task[i].state = "done" <=> fs[files[i]].kind = "text"
        /\ task[i].state = "done" => CountsTokensOf(results[i], SourceText(i))
        /\ task[i].state = "failed" => results[i] = NoObj

\* a serial run read standard input, then opened a file that failed while
\* read and closed it
C16_Witness ==
    /\ workers = WorkersNone
    /\ files = <<"-", "f2">>
    /\ fs["f2"] = BrokenFile
    /\ task[1].state = "done" /\ task[1].opened = 0
    /\ total_words(results[1]) = 2
    /\ task[2].state = "failed" /\ task[2].opened = 1 /\ task[2].closed = 1

\* a file with a word written in two ways was read and closed
C16_WitnessText ==
    /\ files[1] = "f1"
    /\ task[1].state = "done" /\ task[1].opened = 1 /\ task[1].closed = 1
    /\ results[1].words = (spam :> 2) @@ (eggs :> 1)

(***************************************************************************)
(* Properties of the tokenizer (specification TokSpec).                    *)
(***************************************************************************)
\* an ASCII letter or digit
IsAlnum(c) == c \in (48..57) \cup (65..90) \cup (97..122)

\* the maximal runs of letters and digits of text, as pairs <<first, last>>
\* of positions
MaximalRuns(text) ==
    {<<i, j>> \in (1..Len(text)) \X (1..Len(text)) :
        /\ i <= j
        /\ \A p \in i..j : IsAlnum(text[p])
        /\ i = 1 \/ ~IsAlnum(text[i - 1])
        /\ j = Len(text) \/ ~IsAlnum(text[j + 1])}

\* toks is the list of the maximal runs of text in the order of the text
IsRunsOf(toks, text) ==
    LET runs == MaximalRuns(text)
    IN  /\ Len(toks) = Cardinality(runs)
        /\ \A r \in runs :
              toks[Cardinality({q \in runs : q[1] < r[1]}) + 1] = SubSeq(text, r[1], r[2])

\* C17: for every text, given as a string to _tokenize_text or as a stream
\* read line by line to tokenize, the tokens emitted are, in the order of
\* the input, exactly its maximal runs of ASCII letters and digits: every
\* token is non-empty and made of letters and digits only, every letter or
\* digit of the input lies in exactly one run, and no run crosses a line end.
C17_TokensAreMaximalRuns ==
    last.op \in {"_tokenize_text", "tokenize"} =>
        /\ IsRunsOf(last.result, last.text)
        /\ \A k \in 1..Len(last.result) :
              /\ last.result[k] # <<>>
              /\ \A p \in 1..Len(last.result[k]) : IsAlnum(last.result[k][p])
        /\ \A p \in 1..Len(last.text) :
              IsAlnum(last.text[p]) =>
                  Cardinality({r \in MaximalRuns(last.text) : r[1] <= p /\ p <= r[2]}) = 1
        /\ \A r \in MaximalRuns(last.text) : \A p \in r[1]..r[2] : last.text[p] # 10

\* the stream "a\nZ0" gave the tokens "a" and "Z0"
C17_Witness ==
    /\ last.op = "tokenize"
    /\ last.text = <<97, 10, 90, 48>>
    /\ last.result = <<<<97>>, <<90, 48>>>>

\* the string "a_Z " gave the tokens "a" and "Z"
C17_WitnessString ==
    /\ last.op = "_tokenize_text"
    /\ last.text = <<97, 95, 90, 32>>
    /\ last.result = <<<<97>>, <<90>>>>

\* every stored word of h has a count of at least 1, h has no more distinct
\* words than words, and its total is 0 exactly when it has no entry
HistogramSound(h) ==
    /\ \A w \in DOMAIN h.words : h.words[w] >= 1
    /\ distinct_words(h) <= total_words(h)
    /\ total_words(h) = 0 <=> DOMAIN h.words = {}

\* C19: every Histogram main builds by add (one per source) and by merge
\* (the sum) has only counts of at least 1, at most as many distinct words
\* as words, and total 0 exactly when it has no entry; hence the report never
\* ends in ZeroDivisionError, with or without percentages, for empty sources
\* too, and every percentage written is above 0 and at most 100.
C19_CountsPositiveNoDivisionByZero ==
    /\ \A i \in 1..Len(files) :
          isinstance_Histogram(results[i]) => HistogramSound(results[i])
    /\ final_result # NoObj => HistogramSound(final_result)
    /\ err # "ZeroDivisionError"
    /\ \A k \in 1..Len(out) :
          out[k].line = "percent" => (out[k].value > 0 /\ out[k].value <= 10000)

\* a run on two empty sources has ended with its report written
C19_Witness ==
    /\ pc = "done"
    /\ files = <<"f1", "-">>
    /\ \A i \in 1..2 : results[i] = Histogram
    /\ total_words(final_result) = 0
    /\ Len(out) = 4

\* a report with percentages has been written: spam 66.67%, eggs 33.33%
C19_WitnessPercent ==
    /\ pc = "done"
    /\ \E k \in 1..Len(out) :
          out[k] = [line |-> "percent", word |-> spam, value |-> 6667]
    /\ \E k \in 1..Len(out) :
          out[k] = [line |-> "percent", word |-> eggs, value |-> 3333]

\* in the heap of specification Spec every Histogram built by add, +=
\* and +, A += A and A + A included, is sound
HeapHistogramsSound ==
    \A r \in Refs : Allocated(heap, r) => HistogramSound(heap[r])

====
